---- MODULE Spec2Model ----
(***************************************************************************)
(* Model of the AuraHub API gateway (devthedeveleoper/aurahub-api).        *)
(*                                                                         *)
(* config.py loads the provider credentials at startup; every endpoint     *)
(* handler calls one method of StreamtapeService, which builds the         *)
(* outbound parameters, issues one GET to the provider, interprets the     *)
(* provider's envelope {status, msg, result} and returns a value or raises *)
(* an HTTPException; the handler turns that into its return value, which   *)
(* the route's response_model validates before it is sent.  GET / is       *)
(* answered by main.root without a call to the provider.                   *)
(*                                                                         *)
(* Python values are tagged records: [t |-> "none"], [t |-> "str", v],     *)
(* [t |-> "bool", v], [t |-> "int", v], [t |-> "dict", v], [t |-> "list",  *)
(* v].  Python dicts with string keys are functions from strings.          *)
(***************************************************************************)
EXTENDS Integers, Sequences, FiniteSets, TLC

VARIABLES
    env,        \* process environment read by Settings(): STREAMTAPE_LOGIN, STREAMTAPE_KEY
    phase,      \* "boot" | "running" | "failed" (Settings() raised ValueError)
    service,    \* the StreamtapeService singleton: base_url, login, key
    clients,    \* identities of the request tasks the server runs
    pc,         \* per task: "idle" | "awaiting" (suspended in client.get) |
                \* "closing" (suspended in AsyncClient.__aexit__) | "done"
    request,    \* per task: the local request being handled (op, args)
    outbound,   \* per task: the outbound GET issued for the request (url, params)
    reply,      \* per task: what the provider leg produced for that GET
    response,   \* per task: the local response
    calls,      \* per task: outbound GETs issued for the current request
    accepted,   \* requests that entered a handler since startup
    sent,       \* outbound GETs issued since startup
    provider,   \* the outcomes the provider leg can produce in this run
    journal     \* [on, log]: when on, the finished delete-folder exchanges in order

vars == <<env, phase, service, clients, pc, request, outbound, reply, response,
          calls, accepted, sent, provider, journal>>

\* Bound on the number of requests handled in one run.
MaxRequests == 2

(***************************************************************************)
(* Python values                                                           *)
(***************************************************************************)
PyNone == [t |-> "none"]
PyStr(s) == [t |-> "str", v |-> s]
PyBool(b) == [t |-> "bool", v |-> b]
PyInt(n) == [t |-> "int", v |-> n]
PyDict(f) == [t |-> "dict", v |-> f]
PyList(q) == [t |-> "list", v |-> q]

\* isinstance(x, str) / dict / list / bool
IsStr(x) == x.t = "str"
IsDict(x) == x.t = "dict"
IsList(x) == x.t = "list"
IsBool(x) == x.t = "bool"

\* Python truthiness, as used by `if folder:` and `not self.STREAMTAPE_LOGIN`
Truthy(x) ==
    CASE x.t = "none" -> FALSE
      [] x.t = "str"  -> x.v # ""
      [] x.t = "bool" -> x.v
      [] x.t = "int"  -> x.v # 0
      [] x.t = "dict" -> DOMAIN x.v # {}
      [] x.t = "list" -> Len(x.v) > 0

\* A Python dict literal {} and d[k] = v
EmptyDict == [k \in {} |-> PyNone]
DictSet(d, k, val) == [x \in DOMAIN d \cup {k} |-> IF x = k THEN val ELSE d[x]]
\* {**base, **over}: later keys overwrite earlier ones
DictMerge(base, over) ==
    [x \in DOMAIN base \cup DOMAIN over |-> IF x \in DOMAIN over THEN over[x] ELSE base[x]]

(***************************************************************************)
(* config.py                                                               *)
(***************************************************************************)
STREAMTAPE_BASE_URL == "https://api.streamtape.com"

\* Variant of CredentialsMissing that fails only when both are missing
CredentialsMissingBoth(e) == ~Truthy(e.STREAMTAPE_LOGIN) /\ ~Truthy(e.STREAMTAPE_KEY)

\* Settings.model_post_init: the credentials check
CredentialsMissing(e) == ~Truthy(e.STREAMTAPE_LOGIN) \/ ~Truthy(e.STREAMTAPE_KEY)

\* Values the environment may hold for a credential: unset, empty, set
EnvValues(name) == {PyNone, PyStr(""), PyStr(name)}

(***************************************************************************)
(* The provider leg: what `await client.get(...)`, raise_for_status() and  *)
(* response.json() can produce for one outbound GET.                       *)
(***************************************************************************)
Absent == [t |-> "absent"]      \* marks a key the envelope does not carry

\* The JSON object {status, msg, result} with the absent keys left out
Envelope(st, msg, res) ==
    LET fld == [status |-> st, msg |-> msg, result |-> res]
    IN  [k \in {x \in {"status", "msg", "result"} : fld[x] # Absent} |-> fld[k]]

EnvelopeStatuses == {Absent, PyInt(200), PyInt(400), PyInt(404)}
EnvelopeMsgs == {Absent, PyStr("Folder not found")}
EnvelopeResults ==
    { Absent, PyNone, PyBool(TRUE), PyBool(FALSE), PyStr("true"), PyInt(1),
      PyDict([folderid |-> PyStr("42")]), PyDict(EmptyDict),
      PyDict([wait_time |-> PyInt(5)]),
      PyList(<<>>), PyList(<<PyDict([id |-> PyStr("c1")])>>),
      PyList(<<PyStr("c1")>>) }

Envelopes ==
    { Envelope(st, msg, res) :
        st \in EnvelopeStatuses, msg \in EnvelopeMsgs, res \in EnvelopeResults }

\* Outcomes of the provider leg
TransportErrors ==
    { [kind |-> "RequestError", text |-> "timed out"] }
StatusErrors ==
    { [kind |-> "HTTPStatusError", status_code |-> sc, text |-> "unavailable"] :
        sc \in {404, 503} }
BodyErrors ==
    { [kind |-> "JSONDecodeError",
       text |-> "Expecting value: line 1 column 1 (char 0)"] }
JsonBodies ==
    { [kind |-> "json", data |-> PyDict(e)] : e \in Envelopes }
    \cup { [kind |-> "json", data |-> PyList(<<>>)] }

ProviderOutcomes == TransportErrors \cup StatusErrors \cup BodyErrors \cup JsonBodies

(***************************************************************************)
(* Exceptions                                                              *)
(***************************************************************************)
\* fastapi.HTTPException(status_code, detail); raised_by names the raise
\* statement that produced it
HTTPException(sc, detail, site) ==
    [type |-> "HTTPException", status_code |-> sc, detail |-> detail, raised_by |-> site]

\* str(exc) in the f-strings of the except clauses; for an HTTPException it
\* is "<status_code>: <detail>"
StrExc(e) ==
    IF e.type = "HTTPException"
    THEN ToString(e.status_code) \o ": " \o e.detail
    ELSE e.text

Return(val) == [k |-> "return", value |-> val]
Raise(e) == [k |-> "raise", exc |-> e]

(***************************************************************************)
(* StreamtapeService._make_request                                         *)
(***************************************************************************)
DefaultErrorMsg == "An error occurred with the Streamtape API."

\* The body of the try block: client.get, raise_for_status, json(), and the
\* interpretation of the envelope
TryBody(o) ==
    CASE o.kind = "RequestError" ->
            Raise([type |-> "RequestError", text |-> o.text])
      [] o.kind = "HTTPStatusError" ->
            Raise([type |-> "HTTPStatusError", status_code |-> o.status_code,
                   text |-> o.text])
      [] o.kind = "JSONDecodeError" ->
            Raise([type |-> "JSONDecodeError", text |-> o.text])
      [] o.kind = "json" ->
            IF ~IsDict(o.data)
            THEN Raise([type |-> "AttributeError",
                        text |-> "'list' object has no attribute 'get'"])
            ELSE LET data == o.data.v IN
                 IF "status" \in DOMAIN data /\ data["status"] = PyInt(200)
                 THEN IF "result" \in DOMAIN data
                      THEN Return(data["result"])
                      ELSE Raise([type |-> "KeyError", text |-> "'result'"])
                 ELSE LET msg == IF "msg" \in DOMAIN data
                                 THEN data["msg"].v ELSE DefaultErrorMsg
                          error_msg ==
                              IF "result" \in DOMAIN data /\ IsStr(data["result"])
                              THEN msg \o ": " \o data["result"].v
                              ELSE msg
                          sc == IF "status" \in DOMAIN data
                                THEN data["status"].v ELSE 500
                      IN  Raise(HTTPException(sc, error_msg, "envelope"))

\* The except clauses, tried in order: httpx.RequestError,
\* httpx.HTTPStatusError, Exception
ExceptClauses(e) ==
    CASE e.type = "RequestError" ->
            HTTPException(500,
                "An error occurred while requesting Streamtape API: " \o StrExc(e),
                "RequestError")
      [] e.type = "HTTPStatusError" ->
            HTTPException(e.status_code,
                "Error response from Streamtape API: " \o ToString(e.status_code)
                    \o " - " \o e.text,
                "HTTPStatusError")
      [] OTHER ->
            HTTPException(500, "An unexpected error occurred: " \o StrExc(e),
                "Exception")

make_request(o) ==
    LET r == TryBody(o)
    IN  IF r.k = "return" THEN r ELSE Raise(ExceptClauses(r.exc))

\* Variant of params_with_auth that leaves the key out
params_with_auth_no_key(svc, params) ==
    DictMerge([login |-> svc.login], params)

\* params_with_auth = {"login": self.login, "key": self.key, **params}
params_with_auth(svc, params) ==
    DictMerge([login |-> svc.login, key |-> svc.key], params)

\* The GET that _make_request issues
make_request_call(svc, endpoint, params) ==
    [url |-> svc.base_url \o endpoint, params |-> params_with_auth(svc, params)]

(***************************************************************************)
(* StreamtapeService: the parameters each method builds                    *)
(***************************************************************************)
\* str(httponly).lower()
StrBool(b) == IF b THEN "True" ELSE "False"
Lower(s) == CASE s = "True" -> "true" [] s = "False" -> "false" [] OTHER -> s

\* ",".join(file_ids) for a list of str
RECURSIVE Join(_)
Join(q) ==
    IF Len(q) = 0 THEN ""
    ELSE IF Len(q) = 1 THEN q[1].v
    ELSE q[1].v \o "," \o Join(Tail(q))

\* `if x: params[k] = x`
SetIfTruthy(d, k, x) == IF Truthy(x) THEN DictSet(d, k, x) ELSE d

get_upload_url_params(folder, sha256, httponly) ==
    LET p1 == SetIfTruthy(EmptyDict, "folder", folder)
        p2 == SetIfTruthy(p1, "sha256", sha256)
    IN  IF httponly # PyNone
        THEN DictSet(p2, "httponly", PyStr(Lower(StrBool(httponly.v))))
        ELSE p2

add_remote_upload_params(url, folder, headers, name) ==
    LET p0 == DictSet(EmptyDict, "url", url)
        p1 == SetIfTruthy(p0, "folder", folder)
        p2 == SetIfTruthy(p1, "headers", headers)
    IN  SetIfTruthy(p2, "name", name)

remove_remote_upload_params(remote_upload_id) == DictSet(EmptyDict, "id", remote_upload_id)

check_remote_upload_status_params(remote_upload_id) ==
    DictSet(EmptyDict, "id", remote_upload_id)

list_folder_contents_params(folder_id) == DictSet(EmptyDict, "folder", folder_id)

create_folder_params(name, parent_folder_id) ==
    SetIfTruthy(DictSet(EmptyDict, "name", name), "pid", parent_folder_id)

\* Variant of rename_folder_params with the two caller fields exchanged
rename_folder_params_swapped(folder_id, new_name) ==
    DictSet(DictSet(EmptyDict, "folder", new_name), "name", folder_id)

rename_folder_params(folder_id, new_name) ==
    DictSet(DictSet(EmptyDict, "folder", folder_id), "name", new_name)

delete_folder_params(folder_id) == DictSet(EmptyDict, "folder", folder_id)

rename_file_params(file_id, new_name) ==
    DictSet(DictSet(EmptyDict, "file", file_id), "name", new_name)

move_file_params(file_id, destination_folder_id) ==
    DictSet(DictSet(EmptyDict, "file", file_id), "folder", destination_folder_id)

delete_file_params(file_id) == DictSet(EmptyDict, "file", file_id)

list_running_converts_params == EmptyDict

list_failed_converts_params == EmptyDict

get_thumbnail_image_params(file_id) == DictSet(EmptyDict, "file", file_id)

get_download_ticket_params(file_id) == DictSet(EmptyDict, "file", file_id)

get_final_download_link_params(file_id, ticket, captcha_response) ==
    SetIfTruthy(DictSet(DictSet(EmptyDict, "file", file_id), "ticket", ticket),
                "captcha_response", captcha_response)

\* Variant of get_file_info_params that splits the caller's string on commas,
\* strips the pieces, drops the empty ones and joins them again
get_file_info_params_rejoining(file_ids) ==
    LET SplitStripJoin(s) == CASE s = " id1 ,id1," -> "id1,id1" [] OTHER -> s
    IN  DictSet(EmptyDict, "file",
                IF IsStr(file_ids) THEN PyStr(SplitStripJoin(file_ids.v))
                ELSE PyStr(Join(file_ids.v)))

get_file_info_params(file_ids) ==
    DictSet(EmptyDict, "file",
            IF IsStr(file_ids) THEN file_ids ELSE PyStr(Join(file_ids.v)))

\* Variant of get_final_download_link_call that goes through the shared,
\* credential-injecting request path
get_final_download_link_call_shared(svc, params) ==
    make_request_call(svc, "/file/dl", params)

\* The GET that get_final_download_link issues itself: params as built, no
\* login/key
get_final_download_link_call(svc, params) ==
    [url |-> svc.base_url \o "/file/dl", params |-> params]

(***************************************************************************)
(* StreamtapeService: what each method makes of _make_request's outcome r  *)
(* (a Return(value) or a Raise(HTTPException))                             *)
(***************************************************************************)
\* `result is True if isinstance(result, bool) else False`
TrueIfBoolTrue(result) == IF IsBool(result) THEN result.v = TRUE ELSE FALSE

\* `result if isinstance(result, dict) else {}`
DictOrEmpty(result) == IF IsDict(result) THEN result ELSE PyDict(EmptyDict)

get_upload_url(r) == r

add_remote_upload(r) == r

remove_remote_upload(r) ==
    IF r.k = "raise" THEN r ELSE Return(PyBool(TrueIfBoolTrue(r.value)))

check_remote_upload_status(r) ==
    IF r.k = "raise" THEN r ELSE Return(DictOrEmpty(r.value))

list_folder_contents(r) ==
    IF r.k = "raise" THEN r ELSE Return(DictOrEmpty(r.value))

create_folder(r) ==
    IF r.k = "raise" THEN r ELSE Return(DictOrEmpty(r.value))

rename_folder(r) ==
    IF r.k = "raise" THEN r ELSE Return(PyBool(TrueIfBoolTrue(r.value)))

delete_folder(r) ==
    IF r.k = "raise" THEN r ELSE Return(PyBool(TrueIfBoolTrue(r.value)))

rename_file(r) ==
    IF r.k = "raise" THEN r ELSE Return(PyBool(TrueIfBoolTrue(r.value)))

move_file(r) ==
    IF r.k = "raise" THEN r ELSE Return(PyBool(TrueIfBoolTrue(r.value)))

delete_file(r) ==
    IF r.k = "raise" THEN r ELSE Return(PyBool(TrueIfBoolTrue(r.value)))

\* Variant of list_running_converts that coerces a non-list to []
list_running_converts_coercing(r) ==
    IF r.k = "raise" THEN r
    ELSE IF IsList(r.value) THEN Return(r.value)
    ELSE Return(PyList(<<>>))

list_running_converts(r) ==
    IF r.k = "raise" THEN r
    ELSE IF IsList(r.value) THEN Return(r.value)
    ELSE Raise(HTTPException(500,
            "Unexpected response format for running converts list.", "shape"))

list_failed_converts(r) ==
    IF r.k = "raise" THEN r
    ELSE IF IsList(r.value) THEN Return(r.value)
    ELSE Raise(HTTPException(500,
            "Unexpected response format for failed converts list.", "shape"))

get_thumbnail_image(r) ==
    IF r.k = "raise" THEN r
    ELSE IF IsStr(r.value) THEN Return(r.value)
    ELSE Raise(HTTPException(500,
            "Unexpected response format for thumbnail URL.", "shape"))

get_download_ticket(r) ==
    IF r.k = "raise" THEN r
    ELSE IF IsDict(r.value) THEN Return(r.value)
    ELSE Raise(HTTPException(500,
            "Unexpected response format for download ticket.", "shape"))

get_file_info(r) ==
    IF r.k = "raise" THEN r
    ELSE IF IsDict(r.value) THEN Return(r.value)
    ELSE Raise(HTTPException(500,
            "Unexpected response format for file info.", "shape"))

\* get_final_download_link carries its own copy of the try/except of
\* _make_request and returns data["result"] as it is
final_link_try_body(o) ==
    CASE o.kind = "RequestError" ->
            Raise([type |-> "RequestError", text |-> o.text])
      [] o.kind = "HTTPStatusError" ->
            Raise([type |-> "HTTPStatusError", status_code |-> o.status_code,
                   text |-> o.text])
      [] o.kind = "JSONDecodeError" ->
            Raise([type |-> "JSONDecodeError", text |-> o.text])
      [] o.kind = "json" ->
            IF ~IsDict(o.data)
            THEN Raise([type |-> "AttributeError",
                        text |-> "'list' object has no attribute 'get'"])
            ELSE LET data == o.data.v IN
                 IF "status" \in DOMAIN data /\ data["status"] = PyInt(200)
                 THEN IF "result" \in DOMAIN data
                      THEN Return(data["result"])
                      ELSE Raise([type |-> "KeyError", text |-> "'result'"])
                 ELSE LET msg == IF "msg" \in DOMAIN data
                                 THEN data["msg"].v ELSE DefaultErrorMsg
                          error_msg ==
                              IF "result" \in DOMAIN data /\ IsStr(data["result"])
                              THEN msg \o ": " \o data["result"].v
                              ELSE msg
                          sc == IF "status" \in DOMAIN data
                                THEN data["status"].v ELSE 500
                      IN  Raise(HTTPException(sc, error_msg, "envelope"))

final_link_except(e) ==
    CASE e.type = "RequestError" ->
            HTTPException(500,
                "An error occurred while requesting Streamtape API: " \o StrExc(e),
                "RequestError")
      [] e.type = "HTTPStatusError" ->
            HTTPException(e.status_code,
                "Error response from Streamtape API: " \o ToString(e.status_code)
                    \o " - " \o e.text,
                "HTTPStatusError")
      [] OTHER ->
            HTTPException(500, "An unexpected error occurred: " \o StrExc(e),
                "Exception")

get_final_download_link(o) ==
    LET r == final_link_try_body(o)
    IN  IF r.k = "return" THEN r ELSE Raise(final_link_except(r.exc))

(***************************************************************************)
(* Endpoint handlers: try: return <body>; except HTTPException: raise e;   *)
(* except Exception: raise HTTPException(500, ...)                         *)
(***************************************************************************)
Operations ==
    { "get_upload_url", "add_remote_upload", "remove_remote_upload",
      "check_remote_upload_status", "list_folder_contents", "create_folder",
      "rename_folder", "delete_folder", "rename_file", "move_file", "delete_file",
      "list_running_converts", "list_failed_converts", "get_thumbnail_image",
      "get_download_ticket", "get_final_download_link", "get_file_info" }

\* Operations whose handler returns {"result": success}
BooleanOps ==
    { "remove_remote_upload", "rename_folder", "delete_folder", "rename_file",
      "move_file", "delete_file" }

\* Operations declared to return a mapping
MappingOps ==
    { "get_upload_url", "add_remote_upload", "check_remote_upload_status",
      "list_folder_contents", "create_folder", "get_download_ticket",
      "get_final_download_link", "get_file_info" }

ListOps == { "list_running_converts", "list_failed_converts" }

StringOps == { "get_thumbnail_image" }

\* The service method the handler of `op` awaits, applied to the provider's
\* outcome o
ServiceResult(op, o) ==
    CASE op = "get_upload_url" -> get_upload_url(make_request(o))
      [] op = "add_remote_upload" -> add_remote_upload(make_request(o))
      [] op = "remove_remote_upload" -> remove_remote_upload(make_request(o))
      [] op = "check_remote_upload_status" -> check_remote_upload_status(make_request(o))
      [] op = "list_folder_contents" -> list_folder_contents(make_request(o))
      [] op = "create_folder" -> create_folder(make_request(o))
      [] op = "rename_folder" -> rename_folder(make_request(o))
      [] op = "delete_folder" -> delete_folder(make_request(o))
      [] op = "rename_file" -> rename_file(make_request(o))
      [] op = "move_file" -> move_file(make_request(o))
      [] op = "delete_file" -> delete_file(make_request(o))
      [] op = "list_running_converts" -> list_running_converts(make_request(o))
      [] op = "list_failed_converts" -> list_failed_converts(make_request(o))
      [] op = "get_thumbnail_image" -> get_thumbnail_image(make_request(o))
      [] op = "get_download_ticket" -> get_download_ticket(make_request(o))
      [] op = "get_final_download_link" -> get_final_download_link(o)
      [] op = "get_file_info" -> get_file_info(make_request(o))

\* The body the handler returns for the service's value
HandlerBody(op, val) ==
    IF op \in BooleanOps THEN PyDict([result |-> val])
    ELSE IF op = "get_thumbnail_image" THEN PyDict([thumbnail_url |-> val])
    ELSE val

\* The handler's try/except around the awaited service call
Handler(op, r) ==
    IF r.k = "return" THEN Return(HandlerBody(op, r.value))
    ELSE IF r.exc.type = "HTTPException" THEN Raise(r.exc)
    ELSE Raise(HTTPException(500, "An unexpected error occurred: " \o StrExc(r.exc),
                             "endpoint"))

(***************************************************************************)
(* The routes' response_model: FastAPI validates the handler's return      *)
(* value against it; a value that does not validate is answered with 500   *)
(* and the plain text "Internal Server Error"                              *)
(***************************************************************************)
response_model(op) ==
    CASE op \in { "get_upload_url", "check_remote_upload_status", "list_folder_contents",
                  "get_download_ticket", "get_final_download_link", "get_file_info" } ->
            "Dict[str, Any]"
      [] op \in { "add_remote_upload", "create_folder", "get_thumbnail_image" } ->
            "Dict[str, str]"
      [] op \in BooleanOps -> "Dict[str, bool]"
      [] op \in ListOps -> "List[Dict[str, Any]]"

\* Whether val validates against the declared type (the values the handlers
\* put under "result" are bools; no other value meets Dict[str, bool] here)
Validates(model, val) ==
    CASE model = "Dict[str, Any]" -> IsDict(val)
      [] model = "Dict[str, str]" ->
            IsDict(val) /\ \A k \in DOMAIN val.v : IsStr(val.v[k])
      [] model = "Dict[str, bool]" ->
            IsDict(val) /\ \A k \in DOMAIN val.v : IsBool(val.v[k])
      [] model = "List[Dict[str, Any]]" ->
            IsList(val) /\ \A i \in 1..Len(val.v) : IsDict(val.v[i])

\* The failure of the validation, as it is answered: status 500, text
\* "Internal Server Error"
ResponseValidationError ==
    [type |-> "ResponseValidationError", status_code |-> 500,
     detail |-> "Internal Server Error", raised_by |-> "response_model"]

\* What is answered for the handler's outcome h
serialize_response(op, h) ==
    IF h.k = "return" /\ ~Validates(response_model(op), h.value)
    THEN Raise(ResponseValidationError)
    ELSE h

\* The local response of operation op when the provider leg produced o
LocalResponse(op, o) == serialize_response(op, Handler(op, ServiceResult(op, o)))

(***************************************************************************)
(* Inputs of the local routes                                              *)
(***************************************************************************)
RequiredStr == {PyStr("x"), PyStr("y")}             \* Path(...) / Query(...)
OptionalStr == {PyNone, PyStr(""), PyStr("x")}      \* Query(None)
OptionalBool == {PyNone, PyBool(TRUE), PyBool(FALSE)}
FileIdStrings ==                                    \* /file_info/{file_ids}
    {PyStr("id1"), PyStr("id1,id2"), PyStr(" id1 ,id1,")}

\* Bound on the length of a list of file IDs handed to get_file_info
MaxIds == 2

\* Lists of file IDs (List[str]) of at most MaxIds elements
FileIdLists ==
    { PyList(q) : q \in UNION { [1..n -> {PyStr("id1"), PyStr("id2")}] : n \in 0..MaxIds } }

(***************************************************************************)
(* Startup: settings = Settings(); streamtape_service = StreamtapeService()*)
(***************************************************************************)
\* The state before config.py runs, for a run with the request tasks cs, a
\* provider that can produce the outcomes prov, and the journal on or off
InitWith(cs, prov, observe) ==
    /\ env \in [STREAMTAPE_LOGIN : EnvValues("user"), STREAMTAPE_KEY : EnvValues("secret")]
    /\ phase = "boot"
    /\ service = PyNone
    /\ clients = cs
    /\ pc = [c \in cs |-> "idle"]
    /\ request = [c \in cs |-> PyNone]
    /\ outbound = [c \in cs |-> PyNone]
    /\ reply = [c \in cs |-> PyNone]
    /\ response = [c \in cs |-> PyNone]
    /\ calls = [c \in cs |-> 0]
    /\ accepted = 0
    /\ sent = 0
    /\ provider = prov
    /\ journal = [on |-> observe, log |-> <<>>]

Init == InitWith({1}, ProviderOutcomes, FALSE)

\* Settings() passes model_post_init; StreamtapeService.__init__ copies the
\* settings
Startup ==
    /\ phase = "boot"
    /\ ~CredentialsMissing(env)
    /\ phase' = "running"
    /\ service' = [base_url |-> STREAMTAPE_BASE_URL,
                   login |-> env.STREAMTAPE_LOGIN,
                   key |-> env.STREAMTAPE_KEY]
    /\ UNCHANGED <<env, clients, pc, request, outbound, reply, response, calls,
                   accepted, sent, provider, journal>>

\* model_post_init raises ValueError: the import of config fails
StartupFails ==
    /\ phase = "boot"
    /\ CredentialsMissing(env)
    /\ phase' = "failed"
    /\ UNCHANGED <<env, service, clients, pc, request, outbound, reply, response,
                   calls, accepted, sent, provider, journal>>

(***************************************************************************)
(* A handler up to its suspension in `await client.get(...)`: the service  *)
(* method has built the parameters and the GET is issued                   *)
(***************************************************************************)
\* Variant of Accept in which the tasks share one params dict: the call of a
\* task also carries what the other suspended tasks put there
AcceptSharedParams(c, op, args, call) ==
    /\ phase = "running"
    /\ pc[c] = "idle"
    /\ accepted < MaxRequests
    /\ pc' = [pc EXCEPT ![c] = "awaiting"]
    /\ request' = [request EXCEPT ![c] = [op |-> op, args |-> args]]
    /\ outbound' = [outbound EXCEPT ![c] =
            IF \E d \in clients \ {c} : pc[d] = "awaiting"
            THEN LET d == CHOOSE x \in clients \ {c} : pc[x] = "awaiting"
                 IN  [call EXCEPT !.params = DictMerge(outbound[d].params, call.params)]
            ELSE call]
    /\ calls' = [calls EXCEPT ![c] = calls[c] + 1]
    /\ accepted' = accepted + 1
    /\ sent' = sent + 1
    /\ UNCHANGED <<env, phase, service, clients, reply, response, provider, journal>>

Accept(c, op, args, call) ==
    /\ phase = "running"
    /\ pc[c] = "idle"
    /\ accepted < MaxRequests
    /\ pc' = [pc EXCEPT ![c] = "awaiting"]
    /\ request' = [request EXCEPT ![c] = [op |-> op, args |-> args]]
    /\ outbound' = [outbound EXCEPT ![c] = call]
    /\ calls' = [calls EXCEPT ![c] = calls[c] + 1]
    /\ accepted' = accepted + 1
    /\ sent' = sent + 1
    /\ UNCHANGED <<env, phase, service, clients, reply, response, provider, journal>>

get_upload_url_endpoint(c) ==
    \E folder \in OptionalStr, sha256 \in OptionalStr, httponly \in OptionalBool :
        Accept(c, "get_upload_url",
               [folder |-> folder, sha256 |-> sha256, httponly |-> httponly],
               make_request_call(service, "/file/ul",
                                 get_upload_url_params(folder, sha256, httponly)))

add_remote_upload_endpoint(c) ==
    \E url \in RequiredStr, folder \in OptionalStr, headers \in OptionalStr,
       name \in OptionalStr :
        Accept(c, "add_remote_upload",
               [url |-> url, folder |-> folder, headers |-> headers, name |-> name],
               make_request_call(service, "/remotedl/add",
                                 add_remote_upload_params(url, folder, headers, name)))

remove_remote_upload_endpoint(c) ==
    \E remote_upload_id \in RequiredStr :
        Accept(c, "remove_remote_upload", [remote_upload_id |-> remote_upload_id],
               make_request_call(service, "/remotedl/remove",
                                 remove_remote_upload_params(remote_upload_id)))

check_remote_upload_status_endpoint(c) ==
    \E remote_upload_id \in RequiredStr :
        Accept(c, "check_remote_upload_status", [remote_upload_id |-> remote_upload_id],
               make_request_call(service, "/remotedl/status",
                                 check_remote_upload_status_params(remote_upload_id)))

list_folder_contents_endpoint(c) ==
    \E folder_id \in RequiredStr :
        Accept(c, "list_folder_contents", [folder_id |-> folder_id],
               make_request_call(service, "/file/listfolder",
                                 list_folder_contents_params(folder_id)))

create_folder_endpoint(c) ==
    \E name \in RequiredStr, parent_folder_id \in OptionalStr :
        Accept(c, "create_folder", [name |-> name, parent_folder_id |-> parent_folder_id],
               make_request_call(service, "/file/createfolder",
                                 create_folder_params(name, parent_folder_id)))

rename_folder_endpoint(c) ==
    \E folder_id \in RequiredStr, new_name \in RequiredStr :
        Accept(c, "rename_folder", [folder_id |-> folder_id, new_name |-> new_name],
               make_request_call(service, "/file/renamefolder",
                                 rename_folder_params(folder_id, new_name)))

delete_folder_endpoint(c) ==
    \E folder_id \in RequiredStr :
        Accept(c, "delete_folder", [folder_id |-> folder_id],
               make_request_call(service, "/file/deletefolder",
                                 delete_folder_params(folder_id)))

rename_file_endpoint(c) ==
    \E file_id \in RequiredStr, new_name \in RequiredStr :
        Accept(c, "rename_file", [file_id |-> file_id, new_name |-> new_name],
               make_request_call(service, "/file/rename",
                                 rename_file_params(file_id, new_name)))

move_file_endpoint(c) ==
    \E file_id \in RequiredStr, destination_folder_id \in RequiredStr :
        Accept(c, "move_file",
               [file_id |-> file_id, destination_folder_id |-> destination_folder_id],
               make_request_call(service, "/file/move",
                                 move_file_params(file_id, destination_folder_id)))

delete_file_endpoint(c) ==
    \E file_id \in RequiredStr :
        Accept(c, "delete_file", [file_id |-> file_id],
               make_request_call(service, "/file/delete", delete_file_params(file_id)))

list_running_converts_endpoint(c) ==
    Accept(c, "list_running_converts", EmptyDict,
           make_request_call(service, "/file/runningconverts",
                             list_running_converts_params))

list_failed_converts_endpoint(c) ==
    Accept(c, "list_failed_converts", EmptyDict,
           make_request_call(service, "/file/failedconverts",
                             list_failed_converts_params))

get_thumbnail_image_endpoint(c) ==
    \E file_id \in RequiredStr :
        Accept(c, "get_thumbnail_image", [file_id |-> file_id],
               make_request_call(service, "/file/getsplash",
                                 get_thumbnail_image_params(file_id)))

get_download_ticket_endpoint(c) ==
    \E file_id \in RequiredStr :
        Accept(c, "get_download_ticket", [file_id |-> file_id],
               make_request_call(service, "/file/dlticket",
                                 get_download_ticket_params(file_id)))

get_final_download_link_endpoint(c) ==
    \E file_id \in RequiredStr, ticket \in RequiredStr, captcha_response \in OptionalStr :
        Accept(c, "get_final_download_link",
               [file_id |-> file_id, ticket |-> ticket,
                captcha_response |-> captcha_response],
               get_final_download_link_call(service,
                   get_final_download_link_params(file_id, ticket, captcha_response)))

get_file_info_endpoint(c) ==
    \E file_ids \in FileIdStrings :
        Accept(c, "get_file_info", [file_ids |-> file_ids],
               make_request_call(service, "/file/info", get_file_info_params(file_ids)))

\* get_file_info called with a list of IDs (no route does; the method accepts
\* Union[str, List[str]])
get_file_info_with_list(c) ==
    \E file_ids \in FileIdLists :
        Accept(c, "get_file_info", [file_ids |-> file_ids],
               make_request_call(service, "/file/info", get_file_info_params(file_ids)))

\* main.root: GET / is answered by the handler itself, no GET is issued
root(c) ==
    /\ phase = "running"
    /\ pc[c] = "idle"
    /\ accepted < MaxRequests
    /\ pc' = [pc EXCEPT ![c] = "done"]
    /\ request' = [request EXCEPT ![c] = [op |-> "root", args |-> EmptyDict]]
    /\ response' = [response EXCEPT ![c] =
            Return(PyDict([message |->
                PyStr("AuraHub API Wrapper is running! Visit /docs for API endpoints.")]))]
    /\ accepted' = accepted + 1
    /\ UNCHANGED <<env, phase, service, clients, outbound, reply, calls, sent,
                   provider, journal>>

(***************************************************************************)
(* The awaited GET completes inside `async with httpx.AsyncClient()`: the  *)
(* try/except has its outcome and the task is suspended in __aexit__       *)
(***************************************************************************)
\* Variant of Complete that issues the GET once more after a transport error
CompleteRetrying(c) ==
    /\ pc[c] = "awaiting"
    /\ \/ /\ calls[c] < 2
          /\ calls' = [calls EXCEPT ![c] = calls[c] + 1]
          /\ sent' = sent + 1
          /\ UNCHANGED <<env, phase, service, clients, pc, request, outbound, reply,
                         response, accepted, provider, journal>>
       \/ /\ \E o \in provider : reply' = [reply EXCEPT ![c] = o]
          /\ pc' = [pc EXCEPT ![c] = "closing"]
          /\ UNCHANGED <<env, phase, service, clients, request, outbound, response,
                         calls, accepted, sent, provider, journal>>

Complete(c) ==
    /\ pc[c] = "awaiting"
    /\ \E o \in provider : reply' = [reply EXCEPT ![c] = o]
    /\ pc' = [pc EXCEPT ![c] = "closing"]
    /\ UNCHANGED <<env, phase, service, clients, request, outbound, response, calls,
                   accepted, sent, provider, journal>>

(***************************************************************************)
(* __aexit__ returns: the rest of the service method and of the handler    *)
(* run, and the handler's value is validated against the response_model    *)
(***************************************************************************)
\* The journal after task c's exchange ended with provider outcome o and local
\* response resp: a delete-folder exchange is appended when the journal is on
Journalled(c, o, resp) ==
    IF journal.on /\ request[c].op = "delete_folder"
    THEN [journal EXCEPT !.log =
            Append(@, [folder_id |-> request[c].args.folder_id,
                       outbound |-> outbound[c],
                       calls |-> calls[c],
                       reply |-> o,
                       response |-> resp])]
    ELSE journal

Finish(c) ==
    /\ pc[c] = "closing"
    /\ response' = [response EXCEPT ![c] = LocalResponse(request[c].op, reply[c])]
    /\ journal' = Journalled(c, reply[c], LocalResponse(request[c].op, reply[c]))
    /\ pc' = [pc EXCEPT ![c] = "done"]
    /\ UNCHANGED <<env, phase, service, clients, request, outbound, reply, calls,
                   accepted, sent, provider>>

\* The response is delivered and the task ends
Respond(c) ==
    /\ pc[c] = "done"
    /\ pc' = [pc EXCEPT ![c] = "idle"]
    /\ request' = [request EXCEPT ![c] = PyNone]
    /\ outbound' = [outbound EXCEPT ![c] = PyNone]
    /\ reply' = [reply EXCEPT ![c] = PyNone]
    /\ response' = [response EXCEPT ![c] = PyNone]
    /\ calls' = [calls EXCEPT ![c] = 0]
    /\ UNCHANGED <<env, phase, service, clients, accepted, sent, provider, journal>>

Next ==
    \/ Startup
    \/ StartupFails
    \/ \E c \in clients : create_folder_endpoint(c)
    \/ \E c \in clients : list_folder_contents_endpoint(c)
    \/ \E c \in clients : rename_folder_endpoint(c)
    \/ \E c \in clients : delete_folder_endpoint(c)
    \/ \E c \in clients : rename_file_endpoint(c)
    \/ \E c \in clients : move_file_endpoint(c)
    \/ \E c \in clients : delete_file_endpoint(c)
    \/ \E c \in clients : get_upload_url_endpoint(c)
    \/ \E c \in clients : add_remote_upload_endpoint(c)
    \/ \E c \in clients : remove_remote_upload_endpoint(c)
    \/ \E c \in clients : check_remote_upload_status_endpoint(c)
    \/ \E c \in clients : list_running_converts_endpoint(c)
    \/ \E c \in clients : list_failed_converts_endpoint(c)
    \/ \E c \in clients : get_thumbnail_image_endpoint(c)
    \/ \E c \in clients : get_download_ticket_endpoint(c)
    \/ \E c \in clients : get_final_download_link_endpoint(c)
    \/ \E c \in clients : get_file_info_endpoint(c)
    \/ \E c \in clients : root(c)
    \/ \E c \in clients : Complete(c)
    \/ \E c \in clients : Finish(c)
    \/ \E c \in clients : Respond(c)

Spec == Init /\ [][Next]_vars

(***************************************************************************)
(* Vocabulary of the properties                                            *)
(***************************************************************************)
\* The provider answered with a JSON object (the envelope was parsed)
EnvelopeParsed(o) == o.kind = "json" /\ IsDict(o.data)

\* ... whose status is 200
EnvelopeOk(o) ==
    /\ EnvelopeParsed(o)
    /\ "status" \in DOMAIN o.data.v
    /\ o.data.v["status"] = PyInt(200)

\* Remote business failure: envelope parsed, status != 200
BusinessFailure(o) == EnvelopeParsed(o) /\ ~EnvelopeOk(o)

\* Network-level problem: connection error, timeout, non-2xx transport
\* response, malformed JSON body
NetworkFailure(o) == o.kind \in {"RequestError", "HTTPStatusError", "JSONDecodeError"}

HasResult(o) == "result" \in DOMAIN o.data.v
ResultOf(o) == o.data.v["result"]

\* The envelope's status, or 500 when it has none
StatusOr500(o) ==
    IF "status" \in DOMAIN o.data.v THEN o.data.v["status"].v ELSE 500

\* The envelope's msg (the default text when it has none), followed by ": "
\* and result when result is a string
ProviderMessage(o) ==
    LET msg == IF "msg" \in DOMAIN o.data.v THEN o.data.v["msg"].v ELSE DefaultErrorMsg
    IN  IF HasResult(o) /\ IsStr(ResultOf(o)) THEN msg \o ": " \o ResultOf(o).v ELSE msg

\* Task c handles a request to a provider-backed route and has issued its GET
InFlight(c) == pc[c] \in {"awaiting", "closing", "done"} /\ request[c].op \in Operations
\* ... and the local response is there
Done(c) == pc[c] = "done" /\ request[c].op \in Operations
Failed(c) == response[c].k = "raise"
Succeeded(c) == response[c].k = "return"

(***************************************************************************)
(* C1  For every operation on the shared request path, an envelope with    *)
(* status s != 200 surfaces as a local failure whose status code is s (500 *)
(* when the envelope has no status).                                       *)
(***************************************************************************)
C1_BusinessStatusSurfaced ==
    \A c \in clients :
        (Done(c) /\ request[c].op # "get_final_download_link"
                 /\ BusinessFailure(reply[c]))
        => (Failed(c) /\ response[c].exc.status_code = StatusOr500(reply[c]))

(***************************************************************************)
(* C2  For every boolean-returning operation, given an envelope with       *)
(* status 200, the local response is {"result": true} iff the envelope's   *)
(* result is exactly boolean true; every other case, an absent result      *)
(* included, yields {"result": false} and not a failure.                   *)
(***************************************************************************)
C2_BooleanCoercion ==
    \A c \in clients :
        (Done(c) /\ request[c].op \in BooleanOps /\ EnvelopeOk(reply[c]))
        => response[c] =
             Return(PyDict([result |->
                 PyBool(HasResult(reply[c]) /\ ResultOf(reply[c]) = PyBool(TRUE))]))

(***************************************************************************)
(* C3  Every outbound call of the final-download-link operation carries    *)
(* neither login nor key: its parameter names are among file, ticket and   *)
(* captcha_response.                                                       *)
(***************************************************************************)
C3_FinalLinkNoCredentials ==
    \A c \in clients :
        (InFlight(c) /\ request[c].op = "get_final_download_link")
        => /\ "login" \notin DOMAIN outbound[c].params
           /\ "key" \notin DOMAIN outbound[c].params
           /\ DOMAIN outbound[c].params \subseteq {"file", "ticket", "captcha_response"}

C3_Witness ==
    \E c \in clients :
        /\ InFlight(c)
        /\ request[c].op = "get_final_download_link"
        /\ DOMAIN outbound[c].params = {"file", "ticket", "captcha_response"}

(***************************************************************************)
(* C4  Every outbound call of any other operation carries login and key,   *)
(* equal to the login and key loaded at startup; no caller-supplied value  *)
(* replaces or removes them.                                               *)
(***************************************************************************)
C4_CredentialsInjected ==
    \A c \in clients :
        (InFlight(c) /\ request[c].op # "get_final_download_link")
        => /\ {"login", "key"} \subseteq DOMAIN outbound[c].params
           /\ outbound[c].params["login"] = env.STREAMTAPE_LOGIN
           /\ outbound[c].params["key"] = env.STREAMTAPE_KEY
           /\ outbound[c].params["login"] = service.login
           /\ outbound[c].params["key"] = service.key

C4_Witness ==
    \E c \in clients :
        /\ InFlight(c)
        /\ request[c].op = "rename_folder"
        /\ outbound[c].params["login"] = PyStr("user")
        /\ outbound[c].params["key"] = PyStr("secret")
        /\ outbound[c].params["folder"] = PyStr("x")

(***************************************************************************)
(* C5  For every mapping-returning operation, an envelope with status 200  *)
(* whose result is not a mapping ends in a 500-class failure, never in a   *)
(* success carrying an empty mapping or an unchecked value.                *)
(***************************************************************************)
C5_MappingMismatchFails ==
    \A c \in clients :
        (Done(c) /\ request[c].op \in MappingOps /\ EnvelopeOk(reply[c])
                 /\ ~(HasResult(reply[c]) /\ IsDict(ResultOf(reply[c]))))
        => (Failed(c) /\ response[c].exc.status_code >= 500)

(***************************************************************************)
(* C6  For the list-returning operations and the string-returning          *)
(* operation, an envelope with status 200 whose result is not a list       *)
(* (not a string) fails with status 500 and never yields an empty or       *)
(* coerced value; a result of the right type is returned unchanged.        *)
(***************************************************************************)
ShapeMessage(op) ==
    CASE op = "list_running_converts" ->
            "Unexpected response format for running converts list."
      [] op = "list_failed_converts" ->
            "Unexpected response format for failed converts list."
      [] op = "get_thumbnail_image" ->
            "Unexpected response format for thumbnail URL."

TypeMatches(op, val) == IF op \in ListOps THEN IsList(val) ELSE IsStr(val)

C6_ListAndStringShape ==
    \A c \in clients :
        (Done(c) /\ request[c].op \in ListOps \cup StringOps /\ EnvelopeOk(reply[c]))
        => IF HasResult(reply[c]) /\ TypeMatches(request[c].op, ResultOf(reply[c]))
           THEN /\ Succeeded(c)
                /\ response[c].value =
                       IF request[c].op \in ListOps THEN ResultOf(reply[c])
                       ELSE PyDict([thumbnail_url |-> ResultOf(reply[c])])
           ELSE /\ Failed(c)
                /\ response[c].exc.status_code = 500
                /\ HasResult(reply[c]) =>
                       /\ response[c].exc.raised_by = "shape"
                       /\ response[c].exc.detail = ShapeMessage(request[c].op)

\* Amended: the type that matches is the declared one, a list whose elements
\* are all mappings (a string for the thumbnail); a list with an element that
\* is not a mapping ends in a 500 failure as well, raised by the validation
\* of the response
DeclaredTypeMatches(op, val) ==
    IF op \in ListOps
    THEN IsList(val) /\ \A i \in 1..Len(val.v) : IsDict(val.v[i])
    ELSE IsStr(val)

C6_DeclaredShapeOrFailure ==
    \A c \in clients :
        (Done(c) /\ request[c].op \in ListOps \cup StringOps /\ EnvelopeOk(reply[c]))
        => IF HasResult(reply[c]) /\ DeclaredTypeMatches(request[c].op, ResultOf(reply[c]))
           THEN /\ Succeeded(c)
                /\ response[c].value =
                       IF request[c].op \in ListOps THEN ResultOf(reply[c])
                       ELSE PyDict([thumbnail_url |-> ResultOf(reply[c])])
           ELSE /\ Failed(c)
                /\ response[c].exc.status_code = 500
                /\ HasResult(reply[c]) =>
                       IF TypeMatches(request[c].op, ResultOf(reply[c]))
                       THEN response[c].exc = ResponseValidationError
                       ELSE /\ response[c].exc.raised_by = "shape"
                            /\ response[c].exc.detail = ShapeMessage(request[c].op)

C6_Witness ==
    \E c \in clients :
        /\ Done(c)
        /\ request[c].op = "list_running_converts"
        /\ EnvelopeOk(reply[c])
        /\ HasResult(reply[c])
        /\ ResultOf(reply[c]) = PyDict(EmptyDict)
        /\ Failed(c)
        /\ response[c].exc.raised_by = "shape"

(***************************************************************************)
(* C7  A network-level failure and a remote business failure are never     *)
(* reported through the same error branch with the same status and message *)
(* form, and neither is turned into a success.                             *)
(***************************************************************************)
NetworkOutcomes == TransportErrors \cup StatusErrors \cup BodyErrors

C7_NetworkDistinctFromBusiness ==
    \A c \in clients :
        Done(c) =>
            /\ (NetworkFailure(reply[c]) \/ BusinessFailure(reply[c])) => Failed(c)
            /\ BusinessFailure(reply[c]) =>
                 \A n \in NetworkOutcomes :
                    LET rn == LocalResponse(request[c].op, n)
                    IN  ~(/\ rn.k = "raise"
                          /\ Failed(c)
                          /\ rn.exc.raised_by = response[c].exc.raised_by
                          /\ rn.exc.status_code = response[c].exc.status_code)

(***************************************************************************)
(* C8  For an envelope with status != 200 the detail surfaced to the local *)
(* caller is exactly the envelope's msg, or msg followed by ": " and       *)
(* result when result is a string, with nothing else added.                *)
(***************************************************************************)
C8_BusinessDetailIsProviderMessage ==
    \A c \in clients :
        (Done(c) /\ BusinessFailure(reply[c]))
        => (Failed(c) /\ response[c].exc.detail = ProviderMessage(reply[c]))

(***************************************************************************)
(* C9  Every accepted local request causes exactly one outbound call,      *)
(* whatever the outcome: never zero, and no second call after a transport  *)
(* failure, a business failure or a shape mismatch.                        *)
(***************************************************************************)
C9_ExactlyOneOutboundCall ==
    /\ \A c \in clients :
        /\ pc[c] # "idle" => calls[c] = 1
        /\ pc[c] = "idle" => calls[c] = 0
    /\ sent = accepted

\* Amended: every accepted request to a provider-backed route causes exactly
\* one outbound call, whatever the outcome; a request to the root route GET /
\* is answered locally and causes none
C9_OneCallPerProviderRequest ==
    /\ \A c \in clients :
        /\ InFlight(c) => (calls[c] = 1 /\ outbound[c] # PyNone)
        /\ (pc[c] # "idle" /\ request[c].op = "root") =>
                (calls[c] = 0 /\ outbound[c] = PyNone /\ reply[c] = PyNone)
        /\ pc[c] = "idle" => calls[c] = 0
    /\ sent <= accepted

C9_Witness ==
    \E c \in clients :
        /\ Done(c)
        /\ reply[c].kind = "RequestError"
        /\ Failed(c)
        /\ calls[c] = 1
        /\ accepted = 2
        /\ sent = 1

(***************************************************************************)
(* C10  For every mapping-returning operation, an envelope with status 200 *)
(* whose result is a mapping yields that mapping unchanged as the local    *)
(* response body.                                                          *)
(***************************************************************************)
C10_MappingReturnedUnchanged ==
    \A c \in clients :
        (Done(c) /\ request[c].op \in MappingOps /\ EnvelopeOk(reply[c])
                 /\ HasResult(reply[c]) /\ IsDict(ResultOf(reply[c])))
        => response[c] = Return(ResultOf(reply[c]))

(***************************************************************************)
(* C11  Every request that reaches a handler ends with one response: a     *)
(* success body, or a failure carrying a numeric status and a textual      *)
(* detail.  An exception that is not an already-mapped failure becomes a   *)
(* generic 500 carrying the exception's text; an already-mapped failure    *)
(* (an HTTPException) reaches the caller with its status and detail        *)
(* unchanged; no other exception escapes the handler.                      *)
(***************************************************************************)
\* What the try block around the outbound call produced for task c
TryOutcome(c) ==
    IF request[c].op = "get_final_download_link"
    THEN final_link_try_body(reply[c])
    ELSE TryBody(reply[c])

\* Exceptions that no except clause names: they fall to `except Exception`
Unexpected(e) == e.type \in {"JSONDecodeError", "AttributeError", "KeyError"}

\* What the handler of task c returned or raised
HandlerOutcome(c) == Handler(request[c].op, ServiceResult(request[c].op, reply[c]))

C11_OneResponseFailuresMapped ==
    \A c \in clients :
        /\ pc[c] = "done" => (Succeeded(c) \/ Failed(c))
        /\ Done(c) =>
            /\ Failed(c) =>
                /\ response[c].exc.status_code \in Nat
                /\ response[c].exc.detail \in STRING
            /\ HandlerOutcome(c).k = "raise" =>
                /\ HandlerOutcome(c).exc.type = "HTTPException"
                /\ response[c] = HandlerOutcome(c)
            /\ (TryOutcome(c).k = "raise" /\ Unexpected(TryOutcome(c).exc)) =>
                /\ Failed(c)
                /\ response[c].exc.status_code = 500
                /\ response[c].exc.detail =
                       "An unexpected error occurred: " \o TryOutcome(c).exc.text
            /\ (TryOutcome(c).k = "raise" /\ TryOutcome(c).exc.type = "HTTPException") =>
                /\ Failed(c)
                /\ response[c].exc.status_code = TryOutcome(c).exc.status_code
                /\ response[c].exc.detail = TryOutcome(c).exc.detail

(***************************************************************************)
(* Repeated delete-folder requests: one task, the journal on, a provider   *)
(* that answers with a confirmation, a refusal, a business error or a      *)
(* transport error                                                         *)
(***************************************************************************)
RepeatOutcomes ==
    { [kind |-> "json", data |-> PyDict(Envelope(PyInt(200), Absent, PyBool(TRUE)))],
      [kind |-> "json", data |-> PyDict(Envelope(PyInt(200), Absent, PyBool(FALSE)))],
      [kind |-> "json",
       data |-> PyDict(Envelope(PyInt(400), PyStr("Folder not found"), Absent))],
      [kind |-> "RequestError", text |-> "timed out"],
      [kind |-> "HTTPStatusError", status_code |-> 503, text |-> "unavailable"] }

InitRepeat == InitWith({1}, RepeatOutcomes, TRUE)

NextRepeat ==
    \/ Startup
    \/ StartupFails
    \/ \E c \in clients : delete_folder_endpoint(c)
    \/ \E c \in clients : Complete(c)
    \/ \E c \in clients : Finish(c)
    \/ \E c \in clients : Respond(c)

SpecRepeat == InitRepeat /\ [][NextRepeat]_vars

(***************************************************************************)
(* C12  No local idempotence guard: in any sequence of delete-folder       *)
(* requests for the same folder, each request issues its own outbound call *)
(* with the same parameters as the first, each local outcome depends only  *)
(* on the provider's response to that call, and a provider error on the    *)
(* repeat is surfaced as the provider returned it.                         *)
(***************************************************************************)
\* Each journalled exchange issued one call; same folder, same call; same
\* provider response, same local outcome
NoLocalGuard ==
    /\ sent = accepted
    /\ \A i \in 1..Len(journal.log) :
        /\ journal.log[i].calls = 1
        /\ \A j \in 1..Len(journal.log) :
            /\ journal.log[i].folder_id = journal.log[j].folder_id
                  => journal.log[i].outbound = journal.log[j].outbound
            /\ journal.log[i].reply = journal.log[j].reply
                  => journal.log[i].response = journal.log[j].response

C12_RepeatedDeleteFolder ==
    /\ NoLocalGuard
    /\ \A i \in 2..Len(journal.log) :
        (/\ journal.log[i].folder_id = journal.log[1].folder_id
         /\ BusinessFailure(journal.log[i].reply))
        => /\ journal.log[i].response.k = "raise"
           /\ journal.log[i].response.exc.status_code = StatusOr500(journal.log[i].reply)
           /\ journal.log[i].response.exc.detail = ProviderMessage(journal.log[i].reply)

(***************************************************************************)
(* Concurrent requests: two tasks interleaving at their suspension points  *)
(***************************************************************************)
ConcurrentOutcomes ==
    RepeatOutcomes
    \cup { [kind |-> "json",
            data |-> PyDict(Envelope(PyInt(200), Absent,
                                     PyDict([folderid |-> PyStr("42")])))] }

InitConcurrent == InitWith({1, 2}, ConcurrentOutcomes, FALSE)

NextConcurrent ==
    \/ Startup
    \/ StartupFails
    \/ \E c \in clients : rename_folder_endpoint(c)
    \/ \E c \in clients : delete_folder_endpoint(c)
    \/ \E c \in clients : get_final_download_link_endpoint(c)
    \/ \E c \in clients : Complete(c)
    \/ \E c \in clients : Finish(c)
    \/ \E c \in clients : Respond(c)

SpecConcurrent == InitConcurrent /\ [][NextConcurrent]_vars

(***************************************************************************)
(* C13  Concurrent requests are independent: under every interleaving no   *)
(* request writes shared state (base URL, login and key keep their startup *)
(* values), and each request's outbound call and local response are what   *)
(* they would be had it run alone with the same provider response.         *)
(***************************************************************************)
\* The service as startup built it from the environment
StartupService ==
    [base_url |-> STREAMTAPE_BASE_URL,
     login |-> env.STREAMTAPE_LOGIN,
     key |-> env.STREAMTAPE_KEY]

\* The remote path and the caller parameters of a request, from the route
\* table
RemotePath(op) ==
    CASE op = "get_upload_url" -> "/file/ul"
      [] op = "add_remote_upload" -> "/remotedl/add"
      [] op = "remove_remote_upload" -> "/remotedl/remove"
      [] op = "check_remote_upload_status" -> "/remotedl/status"
      [] op = "list_folder_contents" -> "/file/listfolder"
      [] op = "create_folder" -> "/file/createfolder"
      [] op = "rename_folder" -> "/file/renamefolder"
      [] op = "delete_folder" -> "/file/deletefolder"
      [] op = "rename_file" -> "/file/rename"
      [] op = "move_file" -> "/file/move"
      [] op = "delete_file" -> "/file/delete"
      [] op = "list_running_converts" -> "/file/runningconverts"
      [] op = "list_failed_converts" -> "/file/failedconverts"
      [] op = "get_thumbnail_image" -> "/file/getsplash"
      [] op = "get_download_ticket" -> "/file/dlticket"
      [] op = "get_final_download_link" -> "/file/dl"
      [] op = "get_file_info" -> "/file/info"

CallerParams(req) ==
    LET a == req.args IN
    CASE req.op = "get_upload_url" -> get_upload_url_params(a.folder, a.sha256, a.httponly)
      [] req.op = "add_remote_upload" ->
            add_remote_upload_params(a.url, a.folder, a.headers, a.name)
      [] req.op = "remove_remote_upload" -> remove_remote_upload_params(a.remote_upload_id)
      [] req.op = "check_remote_upload_status" ->
            check_remote_upload_status_params(a.remote_upload_id)
      [] req.op = "list_folder_contents" -> list_folder_contents_params(a.folder_id)
      [] req.op = "create_folder" -> create_folder_params(a.name, a.parent_folder_id)
      [] req.op = "rename_folder" -> rename_folder_params(a.folder_id, a.new_name)
      [] req.op = "delete_folder" -> delete_folder_params(a.folder_id)
      [] req.op = "rename_file" -> rename_file_params(a.file_id, a.new_name)
      [] req.op = "move_file" -> move_file_params(a.file_id, a.destination_folder_id)
      [] req.op = "delete_file" -> delete_file_params(a.file_id)
      [] req.op = "list_running_converts" -> list_running_converts_params
      [] req.op = "list_failed_converts" -> list_failed_converts_params
      [] req.op = "get_thumbnail_image" -> get_thumbnail_image_params(a.file_id)
      [] req.op = "get_download_ticket" -> get_download_ticket_params(a.file_id)
      [] req.op = "get_final_download_link" ->
            get_final_download_link_params(a.file_id, a.ticket, a.captcha_response)
      [] req.op = "get_file_info" -> get_file_info_params(a.file_ids)

\* The outbound call of a request that runs alone
AloneCall(req) ==
    [url |-> STREAMTAPE_BASE_URL \o RemotePath(req.op),
     params |-> IF req.op = "get_final_download_link"
                THEN CallerParams(req)
                ELSE DictMerge([login |-> env.STREAMTAPE_LOGIN,
                                key |-> env.STREAMTAPE_KEY], CallerParams(req))]

C13_ConcurrentRequestsIndependent ==
    /\ phase = "running" => service = StartupService
    /\ \A c \in clients :
        /\ InFlight(c) => outbound[c] = AloneCall(request[c])
        /\ Done(c) => response[c] = LocalResponse(request[c].op, reply[c])

C13_Witness ==
    /\ pc[1] = "done"
    /\ pc[2] = "awaiting"
    /\ request[1].op = "rename_folder"
    /\ request[2].op = "delete_folder"
    /\ outbound[1].params["name"] = PyStr("y")
    /\ BusinessFailure(reply[1])

(***************************************************************************)
(* C14  Startup fails whenever the login or the key is missing from the    *)
(* environment: no service, no request handled; so whenever an outbound    *)
(* call is issued the configured login and key are present and non-empty.  *)
(***************************************************************************)
Missing(x) == x = PyNone \/ x = PyStr("")

C14_StartupRequiresCredentials ==
    /\ (Missing(env.STREAMTAPE_LOGIN) \/ Missing(env.STREAMTAPE_KEY)) =>
        /\ phase # "running"
        /\ service = PyNone
        /\ accepted = 0
        /\ sent = 0
        /\ \A c \in clients : pc[c] = "idle"
    /\ sent > 0 =>
        /\ phase = "running"
        /\ IsStr(service.login) /\ service.login.v # ""
        /\ IsStr(service.key) /\ service.key.v # ""
    /\ \A c \in clients :
        (InFlight(c) /\ request[c].op # "get_final_download_link") =>
            /\ ~Missing(outbound[c].params["login"])
            /\ ~Missing(outbound[c].params["key"])

C14_Witness ==
    /\ phase = "failed"
    /\ env.STREAMTAPE_LOGIN = PyStr("user")
    /\ env.STREAMTAPE_KEY = PyNone

(***************************************************************************)
(* get_file_info, from the route (a string) and called with a list         *)
(***************************************************************************)
NextFileInfo ==
    \/ Startup
    \/ StartupFails
    \/ \E c \in clients : get_file_info_endpoint(c)
    \/ \E c \in clients : get_file_info_with_list(c)
    \/ \E c \in clients : Complete(c)
    \/ \E c \in clients : Finish(c)
    \/ \E c \in clients : Respond(c)

SpecFileInfo == Init /\ [][NextFileInfo]_vars

(***************************************************************************)
(* C15  file_info forwards the caller's comma-joined ID string as the      *)
(* outbound parameter `file` byte for byte (no splitting, re-joining,      *)
(* trimming, de-duplication or truncation); given a list of IDs, the       *)
(* outbound value is the IDs joined by commas in the same order.           *)
(***************************************************************************)
\* The first n IDs of q, in order, with a comma between neighbours
RECURSIVE CommaSeparated(_, _)
CommaSeparated(q, n) ==
    IF n = 0 THEN ""
    ELSE IF n = 1 THEN q[1].v
    ELSE CommaSeparated(q, n - 1) \o "," \o q[n].v

C15_FileInfoForwardsIds ==
    \A c \in clients :
        (InFlight(c) /\ request[c].op = "get_file_info") =>
            /\ DOMAIN outbound[c].params = {"login", "key", "file"}
            /\ IF IsStr(request[c].args.file_ids)
               THEN outbound[c].params["file"] = request[c].args.file_ids
               ELSE outbound[c].params["file"] =
                        PyStr(CommaSeparated(request[c].args.file_ids.v,
                                             Len(request[c].args.file_ids.v)))

C15_Witness ==
    \E c \in clients :
        /\ InFlight(c)
        /\ request[c].op = "get_file_info"
        /\ request[c].args.file_ids = PyStr(" id1 ,id1,")
        /\ outbound[c].params["file"] = PyStr(" id1 ,id1,")

(***************************************************************************)
(* C16  Folder-rename sends folder = the path folder ID and name = the     *)
(* caller's new_name for every pair of values; rename_file sends file and  *)
(* name, move_file sends file and folder.  The two fields are never        *)
(* swapped and neither is omitted.                                         *)
(***************************************************************************)
C16_TwoFieldMapping ==
    \A c \in clients :
        InFlight(c) =>
            /\ request[c].op = "rename_folder" =>
                /\ DOMAIN outbound[c].params = {"login", "key", "folder", "name"}
                /\ outbound[c].params["folder"] = request[c].args.folder_id
                /\ outbound[c].params["name"] = request[c].args.new_name
            /\ request[c].op = "rename_file" =>
                /\ DOMAIN outbound[c].params = {"login", "key", "file", "name"}
                /\ outbound[c].params["file"] = request[c].args.file_id
                /\ outbound[c].params["name"] = request[c].args.new_name
            /\ request[c].op = "move_file" =>
                /\ DOMAIN outbound[c].params = {"login", "key", "file", "folder"}
                /\ outbound[c].params["file"] = request[c].args.file_id
                /\ outbound[c].params["folder"] = request[c].args.destination_folder_id

C16_Witness ==
    \E c \in clients :
        /\ InFlight(c)
        /\ request[c].op = "rename_folder"
        /\ request[c].args.folder_id = PyStr("x")
        /\ request[c].args.new_name = PyStr("y")
        /\ outbound[c].params["folder"] = PyStr("x")
        /\ outbound[c].params["name"] = PyStr("y")

(***************************************************************************)
(* C17  For the operations with optional parameters, an optional parameter *)
(* appears in the outbound parameters under its remote name iff the caller *)
(* supplied it, for every supplied value (an empty string included, and    *)
(* httponly = false sent as "false"); a supplied value is sent unchanged   *)
(* apart from the boolean-to-lowercase-string conversion.                  *)
(***************************************************************************)
\* <<caller field, remote name>> of the optional parameters of an operation
OptionalParams(op) ==
    CASE op = "get_upload_url" ->
            {<<"folder", "folder">>, <<"sha256", "sha256">>, <<"httponly", "httponly">>}
      [] op = "add_remote_upload" ->
            {<<"folder", "folder">>, <<"headers", "headers">>, <<"name", "name">>}
      [] op = "create_folder" -> {<<"parent_folder_id", "pid">>}
      [] op = "get_final_download_link" -> {<<"captcha_response", "captcha_response">>}
      [] OTHER -> {}

\* The value a supplied optional parameter is sent as
SentAs(x) == IF IsBool(x) THEN PyStr(IF x.v THEN "true" ELSE "false") ELSE x

\* The optional parameters of task c's request are in its outbound call
\* exactly when Supplied(value) holds, with the value sent as SentAs says
OptionalsForwarded(c, Supplied(_)) ==
    \A pr \in OptionalParams(request[c].op) :
        LET x == request[c].args[pr[1]] IN
        /\ pr[2] \in DOMAIN outbound[c].params <=> Supplied(x)
        /\ Supplied(x) => outbound[c].params[pr[2]] = SentAs(x)

IsSupplied(x) == x # PyNone

\* The claim as stated: supplied means not absent
C17_OptionalIffSupplied ==
    \A c \in clients : InFlight(c) => OptionalsForwarded(c, IsSupplied)

\* What the code does: an optional string is forwarded iff it is supplied
\* and not empty; httponly is forwarded iff it is supplied, true or false
IsSuppliedNonEmpty(x) == x # PyNone /\ x # PyStr("")

OptionalIffSuppliedNonEmpty ==
    \A c \in clients : InFlight(c) => OptionalsForwarded(c, IsSuppliedNonEmpty)

====
